---------------------------- MODULE Spec2Model ----------------------------
(***************************************************************************)
(* A model of the two MultiQC modules of the repository:                   *)
(*   src/multiqc/star/__init__.py            (STAR "Log.final.out" parser) *)
(*   src/multiqc/modules/kraken2/kraken2.py  (Kraken 2 report module)      *)
(*                                                                         *)
(* Numbers.  Every value the STAR parser stores is a Python float made by  *)
(* float(<captured text>).  A value v is represented by the integer        *)
(* Scale * v (hundredths), so the captured texts of the model carry at     *)
(* most two fractional digits.  The derived counts (Python ints) are kept  *)
(* in the same unit.                                                       *)
(*                                                                         *)
(* Text.  A log text is a sequence of lines; a line is a label (the text   *)
(* before " |") and a token (the text after the "|" and the blanks), the   *)
(* token being a sequence of characters.                                   *)
(***************************************************************************)
EXTENDS Integers, Sequences, FiniteSets, TLC

VARIABLES
    python,              \* the interpreter that runs the modules: "py2" or "py3"
    sample_names_ignore, \* config: the configured ignore-list of sample names
    pc,                  \* STAR __init__: position in the constructor
    seen,                \* STAR: the log files find_log_files has yielded so far,
                         \*       each with what parse_star_report made of it
    star_data,           \* STAR: self.star_data
    log_debug,           \* STAR: messages passed to log.debug
    exc,                 \* STAR: the exception __init__ ended with, or "none"
    csv_file,            \* STAR: what write_csv_file was given, or NotWritten
    general_stats,       \* config.general_stats (headers and rows)
    intro_chart,         \* STAR: what plot_bargraph was given, or NotWritten
    k_pc,                \* kraken2 __init__: "start" or "end"
    k_files,             \* kraken2: the files find_log_files yielded
    kraken2_data,        \* kraken2: self.kraken2_data
    k_tree,              \* kraken2: the taxonomy nodes attached by the parser
    k_exc,               \* kraken2: the exception __init__ ended with, or "none"
    k_data_file,         \* kraken2: what write_data_file was given, or NotWritten
    p_raw,               \* parse run: the raw_data handed to parse_star_report
    p_result             \* parse run: what the call produced, or Pending

vars == << python, sample_names_ignore, pc, seen, star_data, log_debug, exc,
           csv_file, general_stats, intro_chart, k_pc, k_files, kraken2_data,
           k_tree, k_exc, k_data_file, p_raw, p_result >>

starVars == << pc, seen, star_data, log_debug, exc, csv_file, intro_chart >>
krakenVars == << k_pc, k_files, kraken2_data, k_tree, k_exc, k_data_file >>
parseVars == << p_raw, p_result >>

-----------------------------------------------------------------------------
(* Bounds of the model *)

\* the number of STAR log files one run locates, at most
MaxFiles == 3
\* the number of kraken2 report files one run locates, at most
MaxKFiles == 1
\* the number of lines of a kraken2 report, at most
MaxKLines == 3
\* the largest "Number of input reads" of the enumerated parse inputs
MaxCount == 9

\* the unit of the number representation: hundredths
Scale == 10 * 10

EmptyMap == [k \in {} |-> 0]
NotWritten == [written |-> FALSE, data |-> EmptyMap]
Written(d) == [written |-> TRUE, data |-> d]

-----------------------------------------------------------------------------
(* Characters, tokens and float() *)

Digits == {"0", "1", "2", "3", "4", "5", "6", "7", "8", "9"}

DigitVal(c) ==
    CASE c = "0" -> 0 [] c = "1" -> 1 [] c = "2" -> 2 [] c = "3" -> 3
      [] c = "4" -> 4 [] c = "5" -> 5 [] c = "6" -> 6 [] c = "7" -> 7
      [] c = "8" -> 8 [] c = "9" -> 9

DigitChar(n) ==
    CASE n = 0 -> "0" [] n = 1 -> "1" [] n = 2 -> "2" [] n = 3 -> "3"
      [] n = 4 -> "4" [] n = 5 -> "5" [] n = 6 -> "6" [] n = 7 -> "7"
      [] n = 8 -> "8" [] n = 9 -> "9"

RECURSIVE DigitsVal(_)
DigitsVal(s) ==
    IF s = << >> THEN 0
    ELSE DigitsVal(SubSeq(s, 1, Len(s) - 1)) * 10 + DigitVal(s[Len(s)])

\* float(s) succeeds on a text of digits and dots iff it holds at most one
\* dot and at least one digit ("12", "1.5", "1.", ".5"); "." and "1.2.3"
\* raise ValueError.
IsFloatLiteral(s) ==
    /\ \A i \in 1..Len(s) : s[i] \in Digits \cup {"."}
    /\ Cardinality({i \in 1..Len(s) : s[i] = "."}) <= 1
    /\ \E i \in 1..Len(s) : s[i] \in Digits

DotPos(s) ==
    IF \E i \in 1..Len(s) : s[i] = "."
    THEN CHOOSE i \in 1..Len(s) : s[i] = "."
    ELSE Len(s) + 1

\* float(s), in hundredths
ParseFloat(s) ==
    LET whole == SubSeq(s, 1, DotPos(s) - 1)
        frac == SubSeq(s, DotPos(s) + 1, Len(s))
        f == CASE Len(frac) = 0 -> 0
               [] Len(frac) = 1 -> DigitVal(frac[1]) * 10
               [] OTHER -> DigitVal(frac[1]) * 10 + DigitVal(frac[2])
    IN DigitsVal(whole) * Scale + f


-----------------------------------------------------------------------------
(* parse_star_report: the regex table *)

\* group "int" is (\d+), group "float" is ([\d\.]+)
regexes ==
    [ total_reads |-> [label |-> "Number of input reads", group |-> "int"],
      avg_input_read_length |-> [label |-> "Average input read length", group |-> "float"],
      uniquely_mapped |-> [label |-> "Uniquely mapped reads number", group |-> "int"],
      uniquely_mapped_percent |-> [label |-> "Uniquely mapped reads %", group |-> "float"],
      avg_mapped_read_length |-> [label |-> "Average mapped length", group |-> "float"],
      num_splices |-> [label |-> "Number of splices: Total", group |-> "int"],
      num_annotated_splices |-> [label |-> "Number of splices: Annotated (sjdb)", group |-> "int"],
      num_GTAG_splices |-> [label |-> "Number of splices: GT/AG", group |-> "int"],
      num_GCAG_splices |-> [label |-> "Number of splices: GC/AG", group |-> "int"],
      num_ATAC_splices |-> [label |-> "Number of splices: AT/AC", group |-> "int"],
      num_noncanonical_splices |-> [label |-> "Number of splices: Non-canonical", group |-> "int"],
      mismatch_rate |-> [label |-> "Mismatch rate per base, %", group |-> "float"],
      deletion_rate |-> [label |-> "Deletion rate per base", group |-> "float"],
      deletion_length |-> [label |-> "Deletion average length", group |-> "float"],
      insertion_rate |-> [label |-> "Insertion rate per base", group |-> "float"],
      insertion_length |-> [label |-> "Insertion average length", group |-> "float"],
      multimapped |-> [label |-> "Number of reads mapped to multiple loci", group |-> "int"],
      multimapped_percent |-> [label |-> "% of reads mapped to multiple loci", group |-> "float"],
      multimapped_toomany |-> [label |-> "Number of reads mapped to too many loci", group |-> "int"],
      multimapped_toomany_percent |-> [label |-> "% of reads mapped to too many loci", group |-> "float"],
      unmapped_mismatches_percent |-> [label |-> "% of reads unmapped: too many mismatches", group |-> "float"],
      unmapped_tooshort_percent |-> [label |-> "% of reads unmapped: too short", group |-> "float"],
      unmapped_other_percent |-> [label |-> "% of reads unmapped: other", group |-> "float"] ]

FieldNames == DOMAIN regexes

\* the characters a group accepts
GroupChars(group) == IF group = "int" THEN Digits ELSE Digits \cup {"."}

\* what the group captures at the start of a token: its longest prefix of
\* accepted characters (the group is greedy); << >> when the group cannot match
Capture(group, tok) ==
    LET n == CHOOSE n \in 0..Len(tok) :
                 /\ \A i \in 1..n : tok[i] \in GroupChars(group)
                 /\ n < Len(tok) => tok[n + 1] \notin GroupChars(group)
    IN SubSeq(tok, 1, n)

\* the lines of raw_data the regex of field k matches
MatchLines(k, raw_data) ==
    { i \in 1..Len(raw_data) :
        /\ raw_data[i].label = regexes[k].label
        /\ Capture(regexes[k].group, raw_data[i].tok) # << >> }

Min(S) == CHOOSE x \in S : \A y \in S : x <= y

\* re.search(r, raw_data, re.MULTILINE).group(1): the first match
r_search(k, raw_data) ==
    Capture(regexes[k].group, raw_data[Min(MatchLines(k, raw_data))].tok)

ParseResult(kind, data) == [kind |-> kind, data |-> data]
Pending == ParseResult("pending", EmptyMap)

\* lines 89-93: the loop over the regex table.  float() of a captured text
\* that is no float literal raises ValueError out of the loop.
Extractor(raw_data) ==
    LET matched == { k \in FieldNames : MatchLines(k, raw_data) # {} }
    IN IF \E k \in matched : ~IsFloatLiteral(r_search(k, raw_data))
       THEN ParseResult("ValueError", EmptyMap)
       ELSE ParseResult("data", [k \in matched |-> ParseFloat(r_search(k, raw_data))])

-----------------------------------------------------------------------------
(* parse_star_report: the unmapped counts *)

\* the keys lines 96-98 read before line 99 makes the first assignment
RequiredInputs ==
    { "uniquely_mapped", "multimapped", "multimapped_toomany", "total_reads",
      "unmapped_mismatches_percent", "unmapped_tooshort_percent",
      "unmapped_other_percent" }

DerivedFields == { "unmapped_mismatches", "unmapped_tooshort", "unmapped_other" }

\* int(round(x, 0)) for x = count * (percent / total_percent), count being a
\* whole number (in units) and total_percent > 0.  Python 2 rounds a half
\* away from zero, Python 3 to the even neighbour.
IntRound(count, percent, total_percent, py) ==
    LET c1 == count \div total_percent
        c0 == count % total_percent
        n == c0 * percent
        base == c1 * percent + (n \div total_percent)
        twice == 2 * (n % total_percent)
    IN CASE twice < total_percent -> base
         [] twice > total_percent -> base + 1
         [] OTHER -> IF py = "py2"
                     THEN (IF base >= 0 THEN base + 1 ELSE base)
                     ELSE (IF base % 2 = 0 THEN base ELSE base + 1)

total_mapped(pd) ==
    pd["uniquely_mapped"] + pd["multimapped"] + pd["multimapped_toomany"]

unmapped_count(pd) == pd["total_reads"] - total_mapped(pd)

\* a variant: the percentages taken as shares of all reads
total_unmapped_percent_of_all(pd) == 100 * Scale

total_unmapped_percent(pd) ==
    pd["unmapped_mismatches_percent"] + pd["unmapped_tooshort_percent"]
        + pd["unmapped_other_percent"]

\* lines 99-101: one derived count, in hundredths like every other value
DerivedCount(pd, k, py) ==
    Scale * IntRound(unmapped_count(pd) \div Scale, pd[k \o "_percent"],
                     total_unmapped_percent(pd), py)

\* a variant: a missing input read as 0 (parsed_data.get(k, 0))
DerivedValues_zero_fill(pd, py) ==
    LET full == [k \in DOMAIN pd \cup RequiredInputs |-> IF k \in DOMAIN pd THEN pd[k] ELSE 0]
    IN IF total_unmapped_percent(full) = 0
       THEN ParseResult("ZeroDivisionError", EmptyMap)
       ELSE ParseResult("data",
                [k \in DOMAIN pd \cup DerivedFields |->
                    IF k \in DerivedFields THEN DerivedCount(full, k, py) ELSE pd[k]])

\* lines 95-103: try ... except KeyError: pass
DerivedValues(pd, py) ==
    IF ~(RequiredInputs \subseteq DOMAIN pd)
    THEN ParseResult("data", pd)
    ELSE IF total_unmapped_percent(pd) = 0
    THEN ParseResult("ZeroDivisionError", EmptyMap)
    ELSE ParseResult("data",
             [k \in DOMAIN pd \cup DerivedFields |->
                 IF k \in DerivedFields THEN DerivedCount(pd, k, py) ELSE pd[k]])

\* lines 61-106
parse_star_report(raw_data, py) ==
    LET ex == Extractor(raw_data)
        dv == DerivedValues(ex.data, py)
    IN IF ex.kind # "data" THEN ex
       ELSE IF dv.kind # "data" THEN dv
       ELSE IF Cardinality(DOMAIN dv.data) = 0 THEN ParseResult("None", EmptyMap)
       ELSE dv

-----------------------------------------------------------------------------
(* Log texts *)

\* the order in which a STAR Log.final.out prints the lines
FieldOrder ==
    << "total_reads", "avg_input_read_length", "uniquely_mapped",
       "uniquely_mapped_percent", "avg_mapped_read_length", "num_splices",
       "num_annotated_splices", "num_GTAG_splices", "num_GCAG_splices",
       "num_ATAC_splices", "num_noncanonical_splices", "mismatch_rate",
       "deletion_rate", "deletion_length", "insertion_rate",
       "insertion_length", "multimapped", "multimapped_percent",
       "multimapped_toomany", "multimapped_toomany_percent",
       "unmapped_mismatches_percent", "unmapped_tooshort_percent",
       "unmapped_other_percent" >>

Line(label, tok) == [label |-> label, tok |-> tok]

RECURSIVE LinesFrom(_, _)
LinesFrom(m, i) ==
    IF i > Len(FieldOrder) THEN << >>
    ELSE (IF FieldOrder[i] \in DOMAIN m
          THEN << Line(regexes[FieldOrder[i]].label, m[FieldOrder[i]]) >>
          ELSE << >>) \o LinesFrom(m, i + 1)

\* the log text that prints, for each field of m, its line with the token m gives
LogOf(m) == LinesFrom(m, 1)

\* the decimal text of a natural number
RECURSIVE NatTok(_)
NatTok(n) ==
    IF n < 10 THEN << DigitChar(n) >>
    ELSE NatTok(n \div 10) \o << DigitChar(n % 10) >>

\* the text "a.bc" of h hundredths, as STAR prints a percentage
PctTok(h) ==
    NatTok(h \div Scale) \o << ".", DigitChar((h \div 10) % 10), DigitChar(h % 10) >>

Restrict(f, S) == [k \in S \cap DOMAIN f |-> f[k]]

\* percentages (in hundredths) the enumerated logs print
PctChoices == { 0, 10, 250, 3333, 5000 }

\* logs that print all seven inputs of the unmapped counts, over a range of values
FullLogs ==
    { LogOf([ total_reads |-> NatTok(n),
              uniquely_mapped |-> NatTok(u),
              uniquely_mapped_percent |-> PctTok(5000),
              multimapped |-> NatTok(m),
              multimapped_toomany |-> NatTok(t),
              unmapped_mismatches_percent |-> PctTok(a),
              unmapped_tooshort_percent |-> PctTok(b),
              unmapped_other_percent |-> PctTok(c) ]) :
        n \in 0..MaxCount, u \in {0, 3}, m \in {0, 2}, t \in {0, 1},
        a \in PctChoices, b \in PctChoices, c \in PctChoices }

\* the fields whose presence the enumerated partial logs vary
KeyFields == RequiredInputs \cup { "uniquely_mapped_percent", "avg_input_read_length" }

\* a log of a run of one million reads, 90% of them uniquely mapped
GoodProfile ==
    [ total_reads |-> NatTok(1000000),
      avg_input_read_length |-> << "7", "5" >>,
      uniquely_mapped |-> NatTok(900000),
      uniquely_mapped_percent |-> PctTok(9000),
      multimapped |-> NatTok(0),
      multimapped_toomany |-> NatTok(0),
      unmapped_mismatches_percent |-> PctTok(400),
      unmapped_tooshort_percent |-> PctTok(500),
      unmapped_other_percent |-> PctTok(100) ]

\* a log every value of which is zero
ZeroProfile == [k \in KeyFields |-> IF regexes[k].group = "int" THEN NatTok(0) ELSE PctTok(0)]

\* logs that print any subset of the key fields
PartialLogs ==
    { LogOf(Restrict(prof, S)) : prof \in {GoodProfile, ZeroProfile}, S \in SUBSET KeyFields }

\* logs with repeated lines, lines that do not match, and texts float() rejects
OddLogs ==
    { << Line("Number of input reads", NatTok(5)), Line("Number of input reads", NatTok(8)) >>,
      << Line("Number of input reads", << "x" >>), Line("Number of input reads", NatTok(8)) >>,
      << Line("Number of input reads", << "1", "2", ".", "5" >>) >>,
      << Line("Started job on", << "1", "2" >>) >>,
      << Line("Average input read length", << "1", ".", "2", ".", "3" >>) >>,
      << Line("Average input read length", << "." >>), Line("Number of input reads", NatTok(8)) >>,
      << Line("Average input read length", << "7", "." >>) >>,
      << Line("Average input read length", << ".", "5" >>) >>,
      << Line("Uniquely mapped reads %", << "9", "0", ".", "0", "0", "%" >>) >> }

ParseInputs == FullLogs \cup PartialLogs \cup OddLogs

-----------------------------------------------------------------------------
(* Initial states *)

Pythons == { "py2", "py3" }

InitStar ==
    /\ pc = "ingest"
    /\ seen = << >>
    /\ star_data = EmptyMap
    /\ log_debug = {}
    /\ exc = "none"
    /\ csv_file = NotWritten
    /\ intro_chart = NotWritten

InitKraken ==
    /\ k_pc = "start"
    /\ kraken2_data = EmptyMap
    /\ k_tree = << >>
    /\ k_exc = "none"
    /\ k_data_file = NotWritten

InitConfig ==
    /\ general_stats = [headers |-> {}, rows |-> EmptyMap]

-----------------------------------------------------------------------------
(* One call of parse_star_report on an arbitrary log text *)

InitParse ==
    /\ python \in Pythons
    /\ sample_names_ignore = {}
    /\ InitStar /\ InitKraken /\ InitConfig
    /\ k_files = << >>
    /\ p_raw \in ParseInputs
    /\ p_result = Pending

ParseStarReport ==
    /\ p_result = Pending
    /\ p_result' = parse_star_report(p_raw, python)
    /\ UNCHANGED << python, sample_names_ignore, starVars, krakenVars, general_stats, p_raw >>

NextParse == ParseStarReport

SpecParse == InitParse /\ [][NextParse]_vars

-----------------------------------------------------------------------------
(* The STAR module: MultiqcModule.__init__ *)

SampleNames == { "s1", "s2" }

\* a log that matches no regex
NoMatchLog == << Line("Started job on", << "1", "2" >>) >>
\* a log that prints the two read counts and nothing else
CountsOnlyLog == LogOf(Restrict(GoodProfile, {"total_reads", "uniquely_mapped"}))
\* a complete log
GoodLog == LogOf(GoodProfile)
\* a complete log of a run without reads
ZeroLog == LogOf(ZeroProfile)
\* a log with the two fields of the general statistics table, and no more
MappedOnlyLog ==
    LogOf([ uniquely_mapped |-> NatTok(300000), uniquely_mapped_percent |-> PctTok(3000) ])
\* a log with a number float() rejects
BadNumberLog == << Line("Average input read length", << "1", ".", "2", ".", "3" >>) >>

StarLogs == { NoMatchLog, CountsOnlyLog, GoodLog, ZeroLog, MappedOnlyLog, BadNumberLog }

Exceptions == { "ValueError", "ZeroDivisionError" }

DuplicateMsg(s_name) == << "Duplicate sample name found! Overwriting", s_name >>
NoReportsMsg == << "Could not find any reports" >>

\* a variant: the first file of a name is kept (setdefault)
Aggregate_first_wins(data, s_name, parsed_data) ==
    IF parsed_data.kind = "None" \/ s_name \in DOMAIN data THEN data
    ELSE [k \in DOMAIN data \cup {s_name} |->
             IF k = s_name THEN parsed_data.data ELSE data[k]]

\* a variant: the test "parsed_data is not None" left out
Aggregate_unchecked(data, s_name, parsed_data) ==
    [k \in DOMAIN data \cup {s_name} |->
        IF k = s_name THEN parsed_data.data ELSE data[k]]

\* lines 36-39: what self.star_data is after one file
Aggregate(data, s_name, parsed_data) ==
    IF parsed_data.kind = "None" THEN data
    ELSE [k \in DOMAIN data \cup {s_name} |->
             IF k = s_name THEN parsed_data.data ELSE data[k]]

\* lines 36-38: what log.debug has been given after one file
DuplicateLog(logged, data, s_name, parsed_data) ==
    IF parsed_data.kind # "None" /\ s_name \in DOMAIN data
    THEN logged \cup { DuplicateMsg(s_name) }
    ELSE logged

\* line 35, for each log of StarLogs under each interpreter
ParsedLogs ==
    [py \in Pythons |-> [f \in StarLogs |-> parse_star_report(f, py)]]

\* lines 34-39: one turn of the loop over find_log_files
Ingest ==
    /\ pc = "ingest"
    /\ Len(seen) < MaxFiles
    /\ \E s_name \in SampleNames, f \in StarLogs :
         LET parsed_data == ParsedLogs[python][f]
         IN /\ seen' = Append(seen, [s_name |-> s_name, f |-> f,
                                      parsed_data |-> parsed_data])
            /\ IF parsed_data.kind \in Exceptions
               THEN /\ exc' = parsed_data.kind
                    /\ pc' = "raised"
                    /\ UNCHANGED << star_data, log_debug >>
               ELSE /\ star_data' = Aggregate(star_data, s_name, parsed_data)
                    /\ log_debug' = DuplicateLog(log_debug, star_data, s_name, parsed_data)
                    /\ UNCHANGED << exc, pc >>
    /\ UNCHANGED << python, sample_names_ignore, csv_file, general_stats,
                    intro_chart, krakenVars, parseVars >>

\* line 34: find_log_files has no more file
EndOfFiles ==
    /\ pc = "ingest"
    /\ pc' = "check"
    /\ UNCHANGED << python, sample_names_ignore, seen, star_data, log_debug, exc,
                    csv_file, general_stats, intro_chart, krakenVars, parseVars >>

\* a variant: the test of line 41 never true
NoReports_never(data) == FALSE

\* line 41
NoReports(data) == Cardinality(DOMAIN data) = 0

\* lines 41-45
CheckReports ==
    /\ pc = "check"
    /\ IF NoReports(star_data)
       THEN /\ log_debug' = log_debug \cup { NoReportsMsg }
            /\ exc' = "UserWarning"
            /\ pc' = "raised"
       ELSE /\ pc' = "write"
            /\ UNCHANGED << log_debug, exc >>
    /\ UNCHANGED << python, sample_names_ignore, seen, star_data, csv_file,
                    general_stats, intro_chart, krakenVars, parseVars >>

\* line 48
WriteCsvFile ==
    /\ pc = "write"
    /\ csv_file' = Written(star_data)
    /\ pc' = "table"
    /\ UNCHANGED << python, sample_names_ignore, seen, star_data, log_debug, exc,
                    general_stats, intro_chart, krakenVars, parseVars >>

-----------------------------------------------------------------------------
(* star_stats_table *)

\* round-half-even of the rational n / d, d > 0
RoundDiv(n, d) ==
    LET q == n \div d
        twice == 2 * (n % d)
    IN CASE twice < d -> q
         [] twice > d -> q + 1
         [] OTHER -> IF q % 2 = 0 THEN q ELSE q + 1

\* '{:.1f}' of the value n / d (n in hundredths): the tenths shown
Format1f(n, d, suffix) ==
    LET tenths == RoundDiv(n, d * 10)
    IN [int |-> tenths \div 10, dec |-> tenths % 10, suffix |-> suffix]

\* line 117: the divisor of the uniquely mapped count
Million == 1000000

\* line 116
PercentCell(data) == Format1f(data["uniquely_mapped_percent"], 1, "%")
\* line 117
MappedCell(data) == Format1f(data["uniquely_mapped"], Million, "")

Merge(old, new) ==
    [k \in DOMAIN old \cup DOMAIN new |-> IF k \in DOMAIN new THEN new[k] ELSE old[k]]

\* lines 116-117 for one sample: the rows after it and whether a key was missing
RowOf(rows, sn, data) ==
    LET old == IF sn \in DOMAIN rows THEN rows[sn] ELSE EmptyMap
        set(cells) == [k \in DOMAIN rows \cup {sn} |->
                          IF k = sn THEN Merge(old, cells) ELSE rows[k]]
    IN IF "uniquely_mapped_percent" \notin DOMAIN data
       THEN [rows |-> rows, exc |-> "KeyError"]
       ELSE IF "uniquely_mapped" \notin DOMAIN data
       THEN [rows |-> set([uniquely_mapped_percent |-> PercentCell(data)]),
             exc |-> "KeyError"]
       ELSE [rows |-> set([uniquely_mapped_percent |-> PercentCell(data),
                           uniquely_mapped |-> MappedCell(data)]),
             exc |-> "none"]

\* lines 115-117: the loop over self.star_data.items(), in the order the
\* dictionary gives, up to the first exception
RECURSIVE FillRows(_, _, _, _)
FillRows(rows, order, i, data) ==
    IF i > Len(order) THEN [rows |-> rows, exc |-> "none"]
    ELSE LET r == RowOf(rows, order[i], data[order[i]])
         IN IF r.exc # "none" THEN r
            ELSE FillRows(r.rows, order, i + 1, data)

\* the orders in which a dictionary with these keys may be iterated
Orders(S) ==
    { o \in [1..Cardinality(S) -> S] : \A i, j \in DOMAIN o : o[i] = o[j] => i = j }

StatsHeaders == { "uniquely_mapped_percent", "uniquely_mapped" }

\* lines 109-117
StarStatsTable ==
    /\ pc = "table"
    /\ \E order \in Orders(DOMAIN star_data) :
         LET r == FillRows(general_stats.rows, order, 1, star_data)
         IN /\ general_stats' = [headers |-> general_stats.headers \cup StatsHeaders,
                                 rows |-> r.rows]
            /\ IF r.exc # "none"
               THEN exc' = r.exc /\ pc' = "raised"
               ELSE pc' = "chart" /\ UNCHANGED exc
    /\ UNCHANGED << python, sample_names_ignore, seen, star_data, log_debug,
                    csv_file, intro_chart, krakenVars, parseVars >>

\* lines 123-129: the categories of the bar chart
ChartKeys ==
    { "uniquely_mapped", "multimapped", "multimapped_toomany",
      "unmapped_mismatches", "unmapped_tooshort", "unmapped_other" }

\* lines 58, 119-138: plot_bargraph is given self.star_data and the categories
StarAlignmentChart ==
    /\ pc = "chart"
    /\ intro_chart' = Written([sn \in DOMAIN star_data |-> Restrict(star_data[sn], ChartKeys)])
    /\ pc' = "done"
    /\ UNCHANGED << python, sample_names_ignore, seen, star_data, log_debug, exc,
                    csv_file, general_stats, krakenVars, parseVars >>

-----------------------------------------------------------------------------
(* The kraken2 module: MultiqcModule.__init__ *)

\* The body of parse_kraken_log is missing from the source (line 50: #TODO),
\* and no method of the name line 30 calls, parse_kraken2_log, is defined.
\* The constructor is read statement by statement.

\* a report line, by the depth its indentation gives
KLine(depth) == [depth |-> depth]

KDepths == 0..3

\* the sequences over S of length at most n
RECURSIVE SeqsUpTo(_, _)
SeqsUpTo(S, n) ==
    IF n = 0 THEN { << >> }
    ELSE SeqsUpTo(S, n - 1) \cup { Append(q, x) : q \in SeqsUpTo(S, n - 1), x \in S }

\* the reports of at most n lines
KrakenReports(n) == SeqsUpTo({ KLine(d) : d \in KDepths }, n)

KrakenFiles(n) == { [s_name |-> sn, f |-> r] : sn \in SampleNames, r \in KrakenReports(n) }

\* what find_log_files('kraken2') may yield: at most m files of at most n lines
KrakenInputs(m, n) == SeqsUpTo(KrakenFiles(n), m)

\* lines 17-47: the methods the class defines
ClassMethods == { "__init__", "parse_kraken_log" }

\* the methods of BaseMultiqcModule the constructor relies on
BaseMethods == { "find_log_files", "ignore_samples", "write_data_file" }

HasMethod(m) == m \in ClassMethods \cup BaseMethods

\* lines 47-50: the loop over the lines has no body; nothing is stored
parse_kraken_log(data, tree, f) == [data |-> data, tree |-> tree]

\* BaseMultiqcModule.ignore_samples: drop the sample names of the ignore-list
ignore_samples(data, ignore) == Restrict(data, DOMAIN data \ ignore)

\* lines 29-30: the loop over the located files
LoadReports(files) ==
    IF files = << >> THEN [exc |-> "none", data |-> EmptyMap, tree |-> << >>]
    ELSE IF ~HasMethod("parse_kraken2_log")
    THEN [exc |-> "AttributeError", data |-> EmptyMap, tree |-> << >>]
    ELSE [exc |-> "none"] @@ parse_kraken_log(EmptyMap, << >>, files[1])

\* lines 27-44
Kraken2Init ==
    /\ k_pc = "start"
    /\ k_pc' = "end"
    /\ LET loaded == LoadReports(k_files)
           final == ignore_samples(loaded.data, sample_names_ignore)
       IN /\ k_tree' = loaded.tree
          /\ IF loaded.exc # "none"
             THEN /\ k_exc' = loaded.exc
                  /\ kraken2_data' = loaded.data
                  /\ UNCHANGED k_data_file
             ELSE /\ kraken2_data' = final
                  /\ IF NoReports(final)
                     THEN /\ k_exc' = "UserWarning"
                          /\ UNCHANGED k_data_file
                     ELSE /\ k_data_file' = Written(final)
                          /\ k_exc' = IF HasMethod("kraken2_general_stats_table")
                                      THEN "none" ELSE "AttributeError"
    /\ UNCHANGED << python, sample_names_ignore, starVars, general_stats,
                    k_files, parseVars >>

InitKrakenRun ==
    /\ python \in Pythons
    /\ sample_names_ignore \in SUBSET SampleNames
    /\ InitStar /\ InitKraken /\ InitConfig
    /\ k_files \in KrakenInputs(MaxKFiles, MaxKLines)
    /\ p_raw = << >>
    /\ p_result = Pending

NextKraken == Kraken2Init

SpecKraken == InitKrakenRun /\ [][NextKraken]_vars

-----------------------------------------------------------------------------
(* A run of MultiQC with both modules *)

\* the ignore-lists of the configurations explored
IgnoreLists == { {}, {"s2"} }

\* the kraken2 reports of the analysis directories explored
FewKrakenInputs ==
    { << >>, << [s_name |-> "s1", f |-> << KLine(0), KLine(1), KLine(3) >>] >> }

Init ==
    /\ python \in Pythons
    /\ sample_names_ignore \in IgnoreLists
    /\ InitStar /\ InitKraken /\ InitConfig
    /\ k_files \in FewKrakenInputs
    /\ p_raw = << >>
    /\ p_result = Pending

Next ==
    \/ Ingest
    \/ EndOfFiles
    \/ CheckReports
    \/ WriteCsvFile
    \/ StarStatsTable
    \/ StarAlignmentChart
    \/ Kraken2Init

Spec == Init /\ [][Next]_vars

-----------------------------------------------------------------------------
(* Properties of parse_star_report, under SpecParse *)

\* the fields whose regex matches somewhere in the log handed to the call
Matched == { k \in FieldNames : MatchLines(k, p_raw) # {} }

\* every captured text of the log is a float literal
AllLiterals == \A k \in Matched : IsFloatLiteral(r_search(k, p_raw))

\* the number the first match of field k carries
FirstValue(k) == ParseFloat(r_search(k, p_raw))

Returned == p_result # Pending

Abs(x) == IF x < 0 THEN -x ELSE x

\* C2: when one of the seven inputs of the unmapped counts is not among the
\* extracted fields, the call returns normally, the result holds none of the
\* three derived counts, and every extracted field keeps its value.
C2_MissingInputSkipsDerived ==
    (Returned /\ AllLiterals /\ ~(RequiredInputs \subseteq Matched)) =>
        /\ p_result.kind \in { "data", "None" }
        /\ DOMAIN p_result.data \cap DerivedFields = {}
        /\ DOMAIN p_result.data = Matched
        /\ \A k \in Matched : p_result.data[k] = FirstValue(k)

\* C2: a call on a log with the three percentages and the read count, but
\* without the multimapped count, has returned data
C2_Witness ==
    /\ Returned
    /\ p_result.kind = "data"
    /\ { "total_reads", "unmapped_mismatches_percent", "unmapped_tooshort_percent",
         "unmapped_other_percent" } \subseteq Matched
    /\ "multimapped" \notin Matched

\* C3: when all seven inputs are extracted and the three percentages sum to
\* more than 0, the three derived counts are in the result and their sum is
\* within 2 of total_reads - (uniquely_mapped + multimapped + multimapped_toomany).
C3_DerivedSumWithinTwo ==
    (Returned /\ AllLiterals /\ RequiredInputs \subseteq Matched
       /\ FirstValue("unmapped_mismatches_percent") + FirstValue("unmapped_tooshort_percent")
            + FirstValue("unmapped_other_percent") > 0) =>
        /\ p_result.kind = "data"
        /\ DerivedFields \subseteq DOMAIN p_result.data
        /\ Abs(p_result.data["unmapped_mismatches"] + p_result.data["unmapped_tooshort"]
                 + p_result.data["unmapped_other"]
               - (FirstValue("total_reads")
                    - (FirstValue("uniquely_mapped") + FirstValue("multimapped")
                         + FirstValue("multimapped_toomany")))) <= 2 * Scale

\* C3: a call whose derived counts do not add up to the unmapped count, for
\* the rounding
C3_Witness ==
    /\ Returned
    /\ p_result.kind = "data"
    /\ DerivedFields \subseteq DOMAIN p_result.data
    /\ p_result.data["unmapped_mismatches"] + p_result.data["unmapped_tooshort"]
         + p_result.data["unmapped_other"]
       # FirstValue("total_reads")
           - (FirstValue("uniquely_mapped") + FirstValue("multimapped")
                + FirstValue("multimapped_toomany"))

\* C7: for every log text the call returns; it returns None exactly when no
\* regex matched; otherwise the result holds exactly the matched fields (and
\* the derived counts), each mapped to the number of its first match.
C7_ExactlyMatchedFields ==
    Returned =>
        /\ p_result.kind \in { "data", "None" }
        /\ p_result.kind = "None" <=> Matched = {}
        /\ DOMAIN p_result.data \ DerivedFields = Matched
        /\ \A k \in Matched : p_result.data[k] = FirstValue(k)

-----------------------------------------------------------------------------
(* Properties of the STAR run, under Spec *)

\* what parse_star_report makes of the i-th located file
ParsedOf(i) == seen[i].parsed_data

\* the located files of a sample name that yielded data
DataFiles(sn) ==
    { i \in 1..Len(seen) : seen[i].s_name = sn /\ ParsedOf(i).kind = "data" }

Max(S) == CHOOSE x \in S : \A y \in S : x >= y

\* star_stats_table has been entered
TableEntered == general_stats.headers # {}

\* something has been emitted by the STAR module
StarEmitted ==
    \/ csv_file.written
    \/ intro_chart.written
    \/ general_stats.headers # {}
    \/ DOMAIN general_stats.rows # {}

\* C1: a run in which every log matched known fields with numeric values, and
\* at least one log matched a field, does not raise.
C1_RunCompletes ==
    ( /\ \A i \in 1..Len(seen) : ParsedOf(i).kind # "ValueError"
      /\ \E i \in 1..Len(seen) : ParsedOf(i).kind # "None" )
        => exc = "none"

\* C4, as claimed: of two located files of one sample name (no third file of
\* that name), the first of which yielded data, once both are processed the
\* entry of the name is the data of the second and the duplicate warning is
\* recorded, whatever the second file holds.
C4_SecondFileWins ==
    \A i, j \in 1..Len(seen) :
        ( /\ i < j
          /\ seen[i].s_name = seen[j].s_name
          /\ ParsedOf(i).kind = "data"
          /\ \A k \in 1..Len(seen) : seen[k].s_name = seen[i].s_name => k \in {i, j}
          /\ \A k \in 1..Len(seen) : ParsedOf(k).kind \notin Exceptions )
            => /\ seen[j].s_name \in DOMAIN star_data
               /\ star_data[seen[j].s_name] = ParsedOf(j).data
               /\ DuplicateMsg(seen[j].s_name) \in log_debug

\* C4, amended: the entry of a sample name is exactly the data of the last
\* located file of that name that yielded data, and the duplicate warning of
\* the name is recorded once two files of the name have yielded data.
C4_LastDataFileWins ==
    \A sn \in SampleNames :
        /\ DataFiles(sn) # {} =>
             /\ sn \in DOMAIN star_data
             /\ star_data[sn] = ParsedOf(Max(DataFiles(sn))).data
        /\ Cardinality(DataFiles(sn)) >= 2 => DuplicateMsg(sn) \in log_debug

\* C4: a finished run of three files, the first two of one sample name and of
\* different data
C4_Witness ==
    /\ pc = "done"
    /\ Len(seen) = 3
    /\ seen[1].s_name = seen[2].s_name
    /\ seen[3].s_name # seen[1].s_name
    /\ ParsedOf(1).kind = "data" /\ ParsedOf(2).kind = "data"
    /\ ParsedOf(1).data # ParsedOf(2).data
    /\ star_data[seen[1].s_name] = ParsedOf(2).data

\* C5: no sample name of the ignore-list is a key of a Dataset that is written
\* out or handed to the report, in either module.
C5_IgnoredNeverEmitted ==
    /\ csv_file.written => DOMAIN csv_file.data \cap sample_names_ignore = {}
    /\ intro_chart.written => DOMAIN intro_chart.data \cap sample_names_ignore = {}
    /\ DOMAIN general_stats.rows \cap sample_names_ignore = {}
    /\ k_data_file.written => DOMAIN k_data_file.data \cap sample_names_ignore = {}

\* C6: in either module, a constructor that comes to its emptiness test with an
\* empty Dataset ends with UserWarning and nothing emitted; and whatever is
\* emitted, is emitted with a Dataset of at least one sample.
C6_EmptyDatasetEmitsNothing ==
    /\ (pc \notin { "ingest", "check" } /\ exc \notin Exceptions /\ DOMAIN star_data = {})
         => (pc = "raised" /\ exc = "UserWarning" /\ ~StarEmitted)
    /\ (StarEmitted \/ pc \in { "write", "table", "chart", "done" })
         => DOMAIN star_data # {}
    /\ exc = "UserWarning" => DOMAIN star_data = {}
    /\ (k_pc = "end" /\ k_exc # "AttributeError" /\ DOMAIN kraken2_data = {})
         => (k_exc = "UserWarning" /\ ~k_data_file.written)
    /\ k_data_file.written => DOMAIN kraken2_data # {}

\* C6: both modules have ended with UserWarning, the STAR module after it
\* located logs that matched nothing
C6_Witness ==
    /\ pc = "raised" /\ exc = "UserWarning"
    /\ Len(seen) >= 1
    /\ ~StarEmitted
    /\ k_pc = "end" /\ k_exc = "UserWarning"

\* the tenths '{:.1f}' shows of 100 * u / n, for whole counts u and n > 0
PercentOf(u, n) ==
    LET tenths == RoundDiv(1000 * (u \div Scale), n \div Scale)
    IN [int |-> tenths \div 10, dec |-> tenths % 10, suffix |-> "%"]

\* the tenths '{:.1f}' shows of u / 1000000, for a whole count u
MillionsOf(u) ==
    LET tenths == RoundDiv(u \div Scale, 100000)
    IN [int |-> tenths \div 10, dec |-> tenths % 10, suffix |-> ""]

\* C8: once star_stats_table has run, the rows are those of the sample names
\* of the Dataset, and the row of a sample whose log reports N > 0 input reads
\* and U uniquely mapped reads shows 100 * U / N and U / 1000000, each to one
\* decimal place.
C8_RowsShowMappedShare ==
    TableEntered =>
        /\ DOMAIN general_stats.rows = DOMAIN star_data
        /\ \A sn \in DOMAIN star_data :
             ({ "total_reads", "uniquely_mapped" } \subseteq DOMAIN star_data[sn]
                /\ star_data[sn]["total_reads"] > 0) =>
                 /\ sn \in DOMAIN general_stats.rows
                 /\ DOMAIN general_stats.rows[sn] = StatsHeaders
                 /\ general_stats.rows[sn]["uniquely_mapped_percent"]
                      = PercentOf(star_data[sn]["uniquely_mapped"], star_data[sn]["total_reads"])
                 /\ general_stats.rows[sn]["uniquely_mapped"]
                      = MillionsOf(star_data[sn]["uniquely_mapped"])

\* C10, the step: a located file whose parse returns None leaves self.star_data
\* and the recorded warnings as they were.
NoDataFileChangesNothing ==
    (Len(seen') = Len(seen) + 1
       /\ seen'[Len(seen')].parsed_data.kind = "None")
        => (star_data' = star_data /\ log_debug' = log_debug)

\* C10, the state: every value of self.star_data is a non-empty FieldMap, and
\* the Dataset has no more keys than there are located files that yielded data.
OnlyDataStored ==
    /\ \A sn \in DOMAIN star_data : DOMAIN star_data[sn] # {}
    /\ Cardinality(DOMAIN star_data)
         <= Cardinality({ i \in 1..Len(seen) : ParsedOf(i).kind = "data" })

\* C10: a file that yields no data leaves the Dataset and the warnings
\* unchanged; so the Dataset holds only non-empty FieldMaps, at most one per
\* file that yielded data.
C10_NoDataLeavesDataset == []OnlyDataStored /\ [][NoDataFileChangesNothing]_vars

\* C10: a file of an earlier sample name has returned None, and the earlier
\* entry is still there
C10_Witness ==
    /\ Len(seen) >= 2
    /\ seen[1].s_name = seen[2].s_name
    /\ ParsedOf(1).kind = "data"
    /\ ParsedOf(2).kind = "None"
    /\ star_data[seen[1].s_name] = ParsedOf(1).data
    /\ log_debug = {}

-----------------------------------------------------------------------------
(* Properties of the kraken2 run, under SpecKraken *)

\* the node the depth-tracking stack attaches line i to: the nearest line
\* before it of a smaller depth, 0 when there is none
StackParent(lines, i) ==
    LET above == { j \in 1..(i - 1) : lines[j].depth < lines[i].depth }
    IN IF above = {} THEN 0 ELSE Max(above)

ExpectedTree(lines) ==
    [i \in 1..Len(lines) |-> [depth |-> lines[i].depth, parent |-> StackParent(lines, i)]]

\* C9: when a located report has a line more than one level deeper than the
\* line before it, the constructor ends without an exception of the parser,
\* and the nodes of every located report are attached as the depth-tracking
\* stack attaches them.
C9_TreeByDepthStack ==
    (k_pc = "end" /\ \E n \in 1..Len(k_files) : \E i \in 2..Len(k_files[n].f) :
                         k_files[n].f[i].depth > k_files[n].f[i - 1].depth + 1) =>
        /\ k_exc \in { "none", "UserWarning" }
        /\ Len(k_tree) = Len(k_files)
        /\ \A n \in 1..Len(k_files) : k_tree[n] = ExpectedTree(k_files[n].f)

=============================================================================
